---- MODULE Spec2Model ----
(***************************************************************************)
(* Model of package scripts of t-bast/btcutil: the execution stack of a    *)
(* Bitcoin-like script (scripts/stack.go) and the transaction input        *)
(* interpreter that runs an unlock script and a lock script on it          *)
(* (scripts/interpreter.go).                                               *)
(*                                                                         *)
(* A Go string is a sequence of one-character strings, so that the code's  *)
(* text operations (prefix test, decimal and hex conversions) are computed *)
(* and not assumed.  A []byte is a sequence of numbers in 0..255.          *)
(***************************************************************************)
EXTENDS Integers, Sequences, FiniteSets

(***************************************************************************)
(* Bounds of the model.                                                    *)
(***************************************************************************)
\* Width in bits of int / int64, scaled down from 64 (TLC numbers are 32 bit).
IntSize == 8
\* Longest unlock script and lock script of the free-form scripts.
MaxUnlockLen == 2
MaxLockLen == 2
\* The numeric scripts use the integers -MaxInt..MaxInt.
MaxInt == 3

(***************************************************************************)
(* Text helpers.                                                           *)
(***************************************************************************)
nil == "nil"

Last(s) == s[Len(s)]
Front(s) == SubSeq(s, 1, Len(s) - 1)
Drop(s, k) == SubSeq(s, k + 1, Len(s))

RECURSIVE Pow2(_)
Pow2(k) == IF k = 0 THEN 1 ELSE 2 * Pow2(k - 1)

\* F applied to the value x: a local variable of the code, assigned once.
Bind(x, F(_)) == F(x)

\* Sequences over S of length at most n.
BSeq(S, n) == UNION {[1..k -> S] : k \in 0..n}

HexDigits == <<"0", "1", "2", "3", "4", "5", "6", "7", "8", "9",
               "a", "b", "c", "d", "e", "f">>
UpperHexDigits == <<"0", "1", "2", "3", "4", "5", "6", "7", "8", "9",
                    "A", "B", "C", "D", "E", "F">>

\* Index of c in the sequence digits, minus one; -1 when c is not in it.
IndexOf(c, digits) ==
    IF \E i \in 1..Len(digits) : digits[i] = c
    THEN (CHOOSE i \in 1..Len(digits) : digits[i] = c) - 1
    ELSE -1

\* strconv's lower(c) on the letters the parsers look at.
lower(c) ==
    CASE c = "A" -> "a" [] c = "B" -> "b" [] c = "C" -> "c" [] c = "D" -> "d"
      [] c = "E" -> "e" [] c = "F" -> "f" [] c = "O" -> "o" [] c = "X" -> "x"
      [] OTHER -> c

IsDecDigit(c) == IndexOf(c, HexDigits) \in 0..9

(***************************************************************************)
(* encoding/hex.                                                           *)
(***************************************************************************)
fromHexChar(c) ==
    IF IndexOf(c, HexDigits) >= 0 THEN IndexOf(c, HexDigits)
    ELSE IndexOf(c, UpperHexDigits)

\* hex.DecodeString: an odd length or a character that is no hex digit is an
\* error; both letter cases are accepted.
hexDecodeString(s) ==
    IF Len(s) % 2 = 1 \/ \E i \in 1..Len(s) : fromHexChar(s[i]) < 0
    THEN [v |-> <<>>, err |-> "encoding/hex: invalid input"]
    ELSE [v |-> [i \in 1..(Len(s) \div 2) |->
                    16 * fromHexChar(s[2 * i - 1]) + fromHexChar(s[2 * i])],
          err |-> nil]

\* hex.EncodeToString: two lower case digits per byte.
hexEncodeToString(b) ==
    [i \in 1..(2 * Len(b)) |->
        IF i % 2 = 1 THEN HexDigits[(b[(i + 1) \div 2] \div 16) + 1]
        ELSE HexDigits[(b[i \div 2] % 16) + 1]]

(***************************************************************************)
(* strconv.ParseInt(v, 0, 0) and strconv.FormatInt(n, 10).                 *)
(***************************************************************************)
\* Two's complement wrap-around of an int64 sum or difference.
WrapInt(n) == ((n + Pow2(IntSize - 1)) % Pow2(IntSize)) - Pow2(IntSize - 1)

\* strconv.underscoreOK: underscores only between digits or after the prefix.
RECURSIVE underscoreScan(_, _, _, _)
underscoreScan(s, i, saw, hex) ==
    IF i > Len(s) THEN saw # "_"
    ELSE IF IsDecDigit(s[i]) \/ (hex /\ IndexOf(lower(s[i]), HexDigits) >= 10)
         THEN underscoreScan(s, i + 1, "0", hex)
    ELSE IF s[i] = "_"
         THEN saw = "0" /\ underscoreScan(s, i + 1, "_", hex)
    ELSE saw # "_" /\ underscoreScan(s, i + 1, "!", hex)

underscoreOK(s0) ==
    LET s == IF Len(s0) >= 1 /\ s0[1] \in {"-", "+"} THEN Drop(s0, 1) ELSE s0
        prefixed == Len(s) >= 2 /\ s[1] = "0" /\ lower(s[2]) \in {"b", "o", "x"}
    IN  IF prefixed
        THEN underscoreScan(s, 3, "0", lower(s[2]) = "x")
        ELSE underscoreScan(s, 1, "^", FALSE)

\* The digit loop of strconv.ParseUint: the value of the digits of s in the
\* given base, starting from acc; -1 is a syntax error, -2 a range error.
RECURSIVE parseDigits(_, _, _, _)
parseDigits(s, i, base, acc) ==
    IF i > Len(s) THEN acc
    ELSE IF s[i] = "_" THEN parseDigits(s, i + 1, base, acc)
    ELSE Bind(IndexOf(lower(s[i]), HexDigits), LAMBDA d :
         IF d < 0 \/ d >= base THEN -1
         ELSE IF acc * base + d >= 2 * Pow2(IntSize - 1) THEN -2
         ELSE parseDigits(s, i + 1, base, acc * base + d))

\* The base and the length of the prefix of s, for the base argument 0.
basePrefix(s) ==
    IF s[1] # "0" THEN [base |-> 10, skip |-> 0]
    ELSE IF Len(s) >= 3 /\ lower(s[2]) = "b" THEN [base |-> 2, skip |-> 2]
    ELSE IF Len(s) >= 3 /\ lower(s[2]) = "o" THEN [base |-> 8, skip |-> 2]
    ELSE IF Len(s) >= 3 /\ lower(s[2]) = "x" THEN [base |-> 16, skip |-> 2]
    ELSE [base |-> 8, skip |-> 1]

\* strconv.ParseUint(s, 0, IntSize): the base comes from the prefix.
ParseUint(s) ==
    IF Len(s) = 0 THEN -1
    ELSE Bind(basePrefix(s), LAMBDA pre :
         Bind(parseDigits(s, pre.skip + 1, pre.base, 0), LAMBDA n :
         IF n < 0 THEN n
         ELSE IF (\E i \in 1..Len(s) : s[i] = "_") /\ ~underscoreOK(s) THEN -1
         ELSE n))

\* strconv.ParseInt(s, 0, 0): an optional sign, then ParseUint, then the range
\* of a signed integer of IntSize bits.
ParseInt(s0) ==
    IF Len(s0) = 0 THEN [v |-> 0, err |-> "invalid syntax"]
    ELSE Bind(s0[1] = "-", LAMBDA neg :
         Bind(ParseUint(IF s0[1] \in {"-", "+"} THEN Drop(s0, 1) ELSE s0), LAMBDA un :
         IF un = -1 THEN [v |-> 0, err |-> "invalid syntax"]
         ELSE IF un = -2 THEN [v |-> 0, err |-> "value out of range"]
         ELSE IF ~neg /\ un >= Pow2(IntSize - 1) THEN [v |-> 0, err |-> "value out of range"]
         ELSE IF neg /\ un > Pow2(IntSize - 1) THEN [v |-> 0, err |-> "value out of range"]
         ELSE [v |-> IF neg THEN 0 - un ELSE un, err |-> nil]))

RECURSIVE formatBits(_)
formatBits(u) ==
    IF u < 10 THEN <<HexDigits[u + 1]>>
    ELSE formatBits(u \div 10) \o <<HexDigits[(u % 10) + 1]>>

\* strconv.FormatInt(n, 10).
FormatInt(n) == IF n < 0 THEN <<"-">> \o formatBits(0 - n) ELSE formatBits(n)

(***************************************************************************)
(* Hash functions.  crypto/sha1 and crypto/sha256 are modelled by a        *)
(* deterministic mixing function with the digest size of the real one.     *)
(***************************************************************************)
Sha1Size == 20
Sha256Size == 32

RECURSIVE mixBytes(_, _)
mixBytes(b, j) ==
    IF j > Len(b) THEN Len(b) + 1
    ELSE ((7 * j + 1) * (b[j] + 1) + 31 * mixBytes(b, j + 1)) % 65521

digest(b, size, salt) ==
    [k \in 1..size |-> ((mixBytes(b, 1) + salt) * (k + salt) + 13 * k) % 256]

sha1Sum(b) == digest(b, Sha1Size, 1)
sha256Sum256(b) == digest(b, Sha256Size, 2)

\* RIPEMD-160 of the empty input: 9c1185a5c5e9fc54612808977ee8f548b2258d31.
ripemd160Empty ==
    <<156, 17, 133, 165, 197, 233, 252, 84, 97, 40,
      8, 151, 126, 232, 245, 72, 178, 37, 141, 49>>

\* ripemd160.New().Sum(b): hash.Hash.Sum appends the digest of what was
\* written to the hash (nothing) to b; b itself is not hashed.
ripemd160NewSum(b) == b \o ripemd160Empty

(***************************************************************************)
(* btcec, scaled down: a compressed public key is a format byte (2 or 3)   *)
(* and one byte of X coordinate, a serialized signature is the header byte *)
(* 0x30 and the two numbers R and S, one byte each.  The signature of the  *)
(* key with X coordinate x over the message h is R = x, S = msgTag(h).     *)
(***************************************************************************)
msgTag(h) == IF Len(h) = 0 THEN 255 ELSE h[1]

\* btcec.ParsePubKey(b, btcec.S256()).
ParsePubKey(b) ==
    IF Len(b) = 2 /\ b[1] \in {2, 3} /\ b[2] # 0
    THEN [v |-> [x |-> b[2], odd |-> b[1] = 3], err |-> nil]
    ELSE [v |-> [x |-> 0, odd |-> FALSE], err |-> "invalid pub key"]

\* btcec.ParseSignature(b, btcec.S256()).
ParseSignature(b) ==
    IF Len(b) = 3 /\ b[1] = 48 /\ b[2] # 0 /\ b[3] # 0
    THEN [v |-> [r |-> b[2], s |-> b[3]], err |-> nil]
    ELSE [v |-> [r |-> 0, s |-> 0], err |-> "malformed signature"]

\* Verify that does not look at the message.
Verify_anyMessage(sig, hash, pubKey) ==
    /\ ~pubKey.odd
    /\ sig.r = pubKey.x

\* (*btcec.Signature).Verify(hash, pubKey).
Verify(sig, hash, pubKey) ==
    /\ ~pubKey.odd
    /\ sig.r = pubKey.x
    /\ sig.s = msgTag(hash)

\* What the tests' createSig builds: the hex of the compressed public key of
\* private key k, and of the signature of k over tx.
PubKeyHex(k) == hexEncodeToString(<<2, k>>)
SigHex(k, tx) == hexEncodeToString(<<48, k, msgTag(tx)>>)

(***************************************************************************)
(* Stack (stack.go).  tx and values are the fields of the struct; panicked *)
(* records that a Go run-time panic was raised while operating on it, and  *)
(* every operation on a panicked stack is skipped, as the panic unwinds.   *)
(***************************************************************************)
\* InitStack: &Stack{}.  panicked: a run-time panic has unwound the call;
\* popEmpty: the panic was the index out of range of Pop on an empty stack.
InitStack == [tx |-> <<>>, values |-> <<>>, panicked |-> FALSE, popEmpty |-> FALSE]

\* WithTxBytes: s.tx is a copy of b.
WithTxBytes(s, b) == [s EXCEPT !.tx = [k \in 1..Len(b) |-> b[k]]]

Size(s) == Len(s.values)

\* Pop: index out of range on an empty stack.
Pop(s) ==
    IF s.panicked THEN [s |-> s, v |-> <<>>]
    ELSE IF Len(s.values) = 0
    THEN [s |-> [s EXCEPT !.panicked = TRUE, !.popEmpty = TRUE], v |-> <<>>]
    ELSE [s |-> [s EXCEPT !.values = Front(s.values)], v |-> Last(s.values)]

\* PopInt: Pop, then strconv.ParseInt(v, 0, 0).
PopInt(s) ==
    Bind(Pop(s), LAMBDA p :
    Bind(ParseInt(p.v), LAMBDA n :
    [s |-> p.s, v |-> n.v, err |-> n.err]))

Push(s, val) ==
    IF s.panicked THEN s ELSE [s EXCEPT !.values = Append(s.values, val)]

\* Print returning s.values itself: the result shares the array of the stack.
Stack_Print_noCopy(s) == [v |-> s.values, shares |-> TRUE]

\* Stack.Print: nil for an empty stack, else a copy of the values in a slice
\* of its own (make and copy), which shares no array with s.values.
Stack_Print(s) ==
    IF Len(s.values) = 0 THEN [v |-> <<>>, shares |-> FALSE]
    ELSE [v |-> [k \in 1..Len(s.values) |-> s.values[k]], shares |-> FALSE]

\* What a slice reads once the stack has become s: a slice of its own keeps
\* its elements; a slice on the array of s.values reads what Push has written
\* there (Pop only shortens s.values and writes nothing).
Reads(view, s) ==
    IF view.shares
    THEN [view EXCEPT !.v = [k \in 1..Len(view.v) |->
                               IF k <= Len(s.values) THEN s.values[k] ELSE view.v[k]]]
    ELSE view

\* make([]T, n): panics when n is negative.
makeSlice(s, n) == IF n < 0 THEN [s EXCEPT !.panicked = TRUE] ELSE s

OP_ == <<"O", "P", "_">>

isOpCode(val) == Len(val) > 3 /\ SubSeq(val, 1, 3) = OP_

\* What an Operation returns: the stack it leaves and the error.
Ret(s, err) == [s |-> s, err |-> err]

(***************************************************************************)
(* Opcode names, the keys of the map ops (stack.go).                       *)
(***************************************************************************)
OP_TRUE == OP_ \o <<"T", "R", "U", "E">>
OP_FALSE == OP_ \o <<"F", "A", "L", "S", "E">>
OP_VERIFY == OP_ \o <<"V", "E", "R", "I", "F", "Y">>
OP_RETURN == OP_ \o <<"R", "E", "T", "U", "R", "N">>
OP_DUP == OP_ \o <<"D", "U", "P">>
OP_DROP == OP_ \o <<"D", "R", "O", "P">>
OP_EQUAL == OP_ \o <<"E", "Q", "U", "A", "L">>
OP_EQUALVERIFY == OP_EQUAL \o <<"V", "E", "R", "I", "F", "Y">>
OP_ADD == OP_ \o <<"A", "D", "D">>
OP_NOT == OP_ \o <<"N", "O", "T">>
OP_SUB == OP_ \o <<"S", "U", "B">>
OP_BOOLAND == OP_ \o <<"B", "O", "O", "L", "A", "N", "D">>
OP_BOOLOR == OP_ \o <<"B", "O", "O", "L", "O", "R">>
OP_RIPEMD160 == OP_ \o <<"R", "I", "P", "E", "M", "D", "1", "6", "0">>
OP_SHA1 == OP_ \o <<"S", "H", "A", "1">>
OP_SHA256 == OP_ \o <<"S", "H", "A", "2", "5", "6">>
OP_HASH160 == OP_ \o <<"H", "A", "S", "H", "1", "6", "0">>
OP_HASH256 == OP_ \o <<"H", "A", "S", "H", "2", "5", "6">>
OP_CHECKSIG == OP_ \o <<"C", "H", "E", "C", "K", "S", "I", "G">>
OP_CHECKSIGVERIFY == OP_CHECKSIG \o <<"V", "E", "R", "I", "F", "Y">>
OP_CHECKMULTISIG == OP_ \o <<"C", "H", "E", "C", "K", "M", "U", "L", "T", "I", "S", "I", "G">>
OP_CHECKMULTISIGVERIFY == OP_CHECKMULTISIG \o <<"V", "E", "R", "I", "F", "Y">>

\* The canonical truth values "1" and "0".
True == <<"1">>
False == <<"0">>

(***************************************************************************)
(* checkSig and checkMultiSig (stack.go).                                  *)
(***************************************************************************)
checkSig(s) ==
    Bind(Pop(s), LAMBDA p1 :
    Bind(hexDecodeString(p1.v), LAMBDA pkBytes :
    IF pkBytes.err # nil
    THEN [s |-> p1.s, ok |-> FALSE, err |-> "public key should be a hex string"]
    ELSE
    Bind(ParsePubKey(pkBytes.v), LAMBDA pubKey :
    IF pubKey.err # nil
    THEN [s |-> p1.s, ok |-> FALSE, err |-> "could not parse public key"]
    ELSE
    Bind(Pop(p1.s), LAMBDA p2 :
    Bind(hexDecodeString(p2.v), LAMBDA sigBytes :
    IF sigBytes.err # nil
    THEN [s |-> p2.s, ok |-> FALSE, err |-> "signature should be a hex string"]
    ELSE
    Bind(ParseSignature(sigBytes.v), LAMBDA sig :
    IF sig.err # nil
    THEN [s |-> p2.s, ok |-> FALSE, err |-> "could not parse signature"]
    ELSE [s |-> p2.s, ok |-> Verify(sig.v, s.tx, pubKey.v), err |-> nil]))))))

\* The loop that pops and parses the public keys i+1..n.
RECURSIVE popPubKeys(_, _, _, _)
popPubKeys(s, n, i, pubKeys) ==
    IF i >= n THEN [s |-> s, v |-> pubKeys, err |-> nil]
    ELSE
    Bind(Pop(s), LAMBDA p :
    Bind(hexDecodeString(p.v), LAMBDA pkBytes :
    IF pkBytes.err # nil
    THEN [s |-> p.s, v |-> pubKeys, err |-> "public key should be a hex string"]
    ELSE
    Bind(ParsePubKey(pkBytes.v), LAMBDA pubKey :
    IF pubKey.err # nil
    THEN [s |-> p.s, v |-> pubKeys, err |-> "could not parse public key"]
    ELSE popPubKeys(p.s, n, i + 1, Append(pubKeys, pubKey.v)))))

\* The loop of the signatures popping one more value than needed, as the
\* original implementation of OP_CHECKMULTISIG does.
RECURSIVE popSigs_oneMore(_, _, _, _)
popSigs_oneMore(s, m, i, sigs) ==
    IF i >= m
    THEN [s |-> IF Size(s) > 0 THEN Pop(s).s ELSE s, v |-> sigs, err |-> nil]
    ELSE
    Bind(Pop(s), LAMBDA p :
    Bind(hexDecodeString(p.v), LAMBDA sigBytes :
    IF sigBytes.err # nil
    THEN [s |-> p.s, v |-> sigs, err |-> "signature should be a hex string"]
    ELSE
    Bind(ParseSignature(sigBytes.v), LAMBDA sig :
    IF sig.err # nil
    THEN [s |-> p.s, v |-> sigs, err |-> "could not parse signature"]
    ELSE popSigs_oneMore(p.s, m, i + 1, Append(sigs, sig.v)))))

\* The loop that pops and parses the signatures i+1..m.
RECURSIVE popSigs(_, _, _, _)
popSigs(s, m, i, sigs) ==
    IF i >= m THEN [s |-> s, v |-> sigs, err |-> nil]
    ELSE
    Bind(Pop(s), LAMBDA p :
    Bind(hexDecodeString(p.v), LAMBDA sigBytes :
    IF sigBytes.err # nil
    THEN [s |-> p.s, v |-> sigs, err |-> "signature should be a hex string"]
    ELSE
    Bind(ParseSignature(sigBytes.v), LAMBDA sig :
    IF sig.err # nil
    THEN [s |-> p.s, v |-> sigs, err |-> "could not parse signature"]
    ELSE popSigs(p.s, m, i + 1, Append(sigs, sig.v)))))

\* The inner loop: the keys from j on, in order, until one verifies sig.
RECURSIVE verifyAnyKey(_, _, _, _)
verifyAnyKey(sig, tx, pubKeys, j) ==
    IF j > Len(pubKeys) THEN FALSE
    ELSE IF Verify(sig, tx, pubKeys[j]) THEN TRUE
    ELSE verifyAnyKey(sig, tx, pubKeys, j + 1)

\* The outer loop, satisfied by the first signature that some key verifies.
RECURSIVE verifySigs_oneIsEnough(_, _, _, _)
verifySigs_oneIsEnough(sigs, tx, pubKeys, i) ==
    IF i > Len(sigs) THEN Len(sigs) = 0
    ELSE IF verifyAnyKey(sigs[i], tx, pubKeys, 1) THEN TRUE
    ELSE verifySigs_oneIsEnough(sigs, tx, pubKeys, i + 1)

\* The outer loop: false at the first signature that no key verifies.
RECURSIVE verifySigs(_, _, _, _)
verifySigs(sigs, tx, pubKeys, i) ==
    IF i > Len(sigs) THEN TRUE
    ELSE IF ~verifyAnyKey(sigs[i], tx, pubKeys, 1) THEN FALSE
    ELSE verifySigs(sigs, tx, pubKeys, i + 1)

checkMultiSig(s) ==
    IF Size(s) < 1
    THEN [s |-> s, ok |-> FALSE, err |-> "OP_CHECKMULTISIG requires a value for N on the stack"]
    ELSE
    Bind(PopInt(s), LAMBDA n :
    IF n.err # nil
    THEN [s |-> n.s, ok |-> FALSE, err |-> "could not parse value of N"]
    ELSE IF Size(n.s) < n.v
    THEN [s |-> n.s, ok |-> FALSE, err |-> "OP_CHECKMULTISIG needs n public keys"]
    ELSE
    Bind(popPubKeys(makeSlice(n.s, n.v), n.v, 0, <<>>), LAMBDA pubKeys :
    IF pubKeys.s.panicked
    THEN [s |-> pubKeys.s, ok |-> FALSE, err |-> nil]
    ELSE IF pubKeys.err # nil
    THEN [s |-> pubKeys.s, ok |-> FALSE, err |-> pubKeys.err]
    ELSE IF Size(pubKeys.s) < 1
    THEN [s |-> pubKeys.s, ok |-> FALSE, err |-> "OP_CHECKMULTISIG requires a value for M on the stack"]
    ELSE
    Bind(PopInt(pubKeys.s), LAMBDA m :
    IF m.err # nil
    THEN [s |-> m.s, ok |-> FALSE, err |-> "could not parse value of M"]
    ELSE IF Size(m.s) < m.v
    THEN [s |-> m.s, ok |-> FALSE, err |-> "OP_CHECKMULTISIG needs m signatures"]
    ELSE
    Bind(popSigs(makeSlice(m.s, m.v), m.v, 0, <<>>), LAMBDA sigs :
    IF sigs.s.panicked
    THEN [s |-> sigs.s, ok |-> FALSE, err |-> nil]
    ELSE IF sigs.err # nil
    THEN [s |-> sigs.s, ok |-> FALSE, err |-> sigs.err]
    ELSE [s |-> sigs.s, ok |-> verifySigs(sigs.v, s.tx, pubKeys.v, 1), err |-> nil]))))

(***************************************************************************)
(* The operations of the map ops (stack.go), one operator per entry.       *)
(***************************************************************************)
op_TRUE(s) == Ret(Push(s, True), nil)

op_FALSE(s) == Ret(Push(s, False), nil)

op_VERIFY(s) ==
    IF Size(s) < 1 THEN Ret(s, "OP_EQUALVERIFY requires a value on the stack")
    ELSE Bind(Pop(s), LAMBDA p :
         IF p.v # True THEN Ret(p.s, "evaluated to false")
         ELSE Ret(p.s, nil))

op_RETURN(s) == Ret(s, "OP_RETURN halts execution")

op_DUP(s) ==
    IF Size(s) = 0 THEN Ret(s, nil)
    ELSE Bind(Pop(s), LAMBDA p : Ret(Push(Push(p.s, p.v), p.v), nil))

\* OP_DROP without the test of the size.
op_DROP_unchecked(s) == Ret(Pop(s).s, nil)

op_DROP(s) == IF Size(s) > 0 THEN Ret(Pop(s).s, nil) ELSE Ret(s, nil)

op_EQUAL(s) ==
    IF Size(s) < 2 THEN Ret(s, "OP_EQUAL requires two values on the stack")
    ELSE Bind(Pop(s), LAMBDA p1 :
         Bind(Pop(p1.s), LAMBDA p2 :
         IF p1.v = p2.v THEN Ret(Push(p2.s, True), nil)
         ELSE Ret(Push(p2.s, False), nil)))

\* OP_EQUALVERIFY that leaves the two values when they differ.
op_EQUALVERIFY_keepsOnFailure(s) ==
    IF Size(s) < 2 THEN Ret(s, "OP_EQUALVERIFY requires two values on the stack")
    ELSE Bind(Pop(s), LAMBDA p1 :
         Bind(Pop(p1.s), LAMBDA p2 :
         IF p1.v # p2.v THEN Ret(s, "evaluated to false")
         ELSE Ret(p2.s, nil)))

op_EQUALVERIFY(s) ==
    IF Size(s) < 2 THEN Ret(s, "OP_EQUALVERIFY requires two values on the stack")
    ELSE Bind(Pop(s), LAMBDA p1 :
         Bind(Pop(p1.s), LAMBDA p2 :
         IF p1.v # p2.v THEN Ret(p2.s, "evaluated to false")
         ELSE Ret(p2.s, nil)))

\* OP_ADD with the operands subtracted.
op_ADD_subtracts(s) ==
    IF Size(s) < 2 THEN Ret(s, "OP_ADD requires two values on the stack")
    ELSE Bind(PopInt(s), LAMBDA v1 :
         IF v1.err # nil THEN Ret(v1.s, "stack value isn't a number")
         ELSE Bind(PopInt(v1.s), LAMBDA v2 :
              IF v2.err # nil THEN Ret(v2.s, "stack value isn't a number")
              ELSE Ret(Push(v2.s, FormatInt(WrapInt(v2.v - v1.v))), nil)))

op_ADD(s) ==
    IF Size(s) < 2 THEN Ret(s, "OP_ADD requires two values on the stack")
    ELSE Bind(PopInt(s), LAMBDA v1 :
         IF v1.err # nil THEN Ret(v1.s, "stack value isn't a number")
         ELSE Bind(PopInt(v1.s), LAMBDA v2 :
              IF v2.err # nil THEN Ret(v2.s, "stack value isn't a number")
              ELSE Ret(Push(v2.s, FormatInt(WrapInt(v1.v + v2.v))), nil)))

\* OP_NOT that takes every value other than "1" for false.
op_NOT_ofTruthy(s) ==
    IF Size(s) < 1 THEN Ret(s, "OP_NOT requires a value on the stack")
    ELSE Bind(Pop(s), LAMBDA p :
         IF p.v # True THEN Ret(Push(p.s, True), nil)
         ELSE Ret(Push(p.s, False), nil))

op_NOT(s) ==
    IF Size(s) < 1 THEN Ret(s, "OP_NOT requires a value on the stack")
    ELSE Bind(Pop(s), LAMBDA p :
         IF p.v = False THEN Ret(Push(p.s, True), nil)
         ELSE Ret(Push(p.s, False), nil))

\* OP_SUB with the operands the other way round.
op_SUB_reversed(s) ==
    IF Size(s) < 2 THEN Ret(s, "OP_SUB requires two values on the stack")
    ELSE Bind(PopInt(s), LAMBDA v1 :
         IF v1.err # nil THEN Ret(v1.s, "stack value isn't a number")
         ELSE Bind(PopInt(v1.s), LAMBDA v2 :
              IF v2.err # nil THEN Ret(v2.s, "stack value isn't a number")
              ELSE Ret(Push(v2.s, FormatInt(WrapInt(v1.v - v2.v))), nil)))

op_SUB(s) ==
    IF Size(s) < 2 THEN Ret(s, "OP_SUB requires two values on the stack")
    ELSE Bind(PopInt(s), LAMBDA v1 :
         IF v1.err # nil THEN Ret(v1.s, "stack value isn't a number")
         ELSE Bind(PopInt(v1.s), LAMBDA v2 :
              IF v2.err # nil THEN Ret(v2.s, "stack value isn't a number")
              ELSE Ret(Push(v2.s, FormatInt(WrapInt(v2.v - v1.v))), nil)))

op_BOOLAND(s) ==
    IF Size(s) < 2 THEN Ret(s, "OP_BOOLAND requires two values on the stack")
    ELSE Bind(Pop(s), LAMBDA b1 :
         Bind(Pop(b1.s), LAMBDA b2 :
         IF b1.v = True /\ b2.v = True THEN Ret(Push(b2.s, True), nil)
         ELSE Ret(Push(b2.s, False), nil)))

op_BOOLOR(s) ==
    IF Size(s) < 2 THEN Ret(s, "OP_BOOLOR requires two values on the stack")
    ELSE Bind(Pop(s), LAMBDA b1 :
         Bind(Pop(b1.s), LAMBDA b2 :
         IF b1.v = True \/ b2.v = True THEN Ret(Push(b2.s, True), nil)
         ELSE Ret(Push(b2.s, False), nil)))

\* The common start of the hash operations: pop and hex.DecodeString.
popHex(s) ==
    Bind(Pop(s), LAMBDA p :
    Bind(hexDecodeString(p.v), LAMBDA v :
    [s |-> p.s, v |-> v.v, err |-> v.err]))

op_RIPEMD160(s) ==
    IF Size(s) < 1 THEN Ret(s, "OP_RIPEMD160 requires a value on the stack")
    ELSE Bind(popHex(s), LAMBDA v :
         IF v.err # nil THEN Ret(v.s, "stack value should be a hex string")
         ELSE Ret(Push(v.s, hexEncodeToString(ripemd160NewSum(v.v))), nil))

op_SHA1(s) ==
    IF Size(s) < 1 THEN Ret(s, "OP_SHA1 requires a value on the stack")
    ELSE Bind(popHex(s), LAMBDA v :
         IF v.err # nil THEN Ret(v.s, "stack value should be a hex string")
         ELSE Ret(Push(v.s, hexEncodeToString(sha1Sum(v.v))), nil))

op_SHA256(s) ==
    IF Size(s) < 1 THEN Ret(s, "OP_SHA256 requires a value on the stack")
    ELSE Bind(popHex(s), LAMBDA v :
         IF v.err # nil THEN Ret(v.s, "stack value should be a hex string")
         ELSE Ret(Push(v.s, hexEncodeToString(sha256Sum256(v.v))), nil))

op_HASH160(s) ==
    IF Size(s) < 1 THEN Ret(s, "OP_HASH160 requires a value on the stack")
    ELSE Bind(popHex(s), LAMBDA v :
         IF v.err # nil THEN Ret(v.s, "stack value should be a hex string")
         ELSE Ret(Push(v.s, hexEncodeToString(ripemd160NewSum(sha256Sum256(v.v)))), nil))

op_HASH256(s) ==
    IF Size(s) < 1 THEN Ret(s, "OP_HASH256 requires a value on the stack")
    ELSE Bind(popHex(s), LAMBDA v :
         IF v.err # nil THEN Ret(v.s, "stack value should be a hex string")
         ELSE Ret(Push(v.s, hexEncodeToString(sha256Sum256(sha256Sum256(v.v)))), nil))

op_CHECKSIG(s) ==
    IF Size(s) < 2 THEN Ret(s, "OP_CHECKSIG requires two values on the stack")
    ELSE Bind(checkSig(s), LAMBDA r :
         IF r.ok THEN Ret(Push(r.s, True), r.err)
         ELSE Ret(Push(r.s, False), r.err))

\* OP_CHECKSIGVERIFY that fails only on the error of checkSig.
op_CHECKSIGVERIFY_errorOnly(s) ==
    IF Size(s) < 2 THEN Ret(s, "OP_CHECKSIGVERIFY requires two values on the stack")
    ELSE Bind(checkSig(s), LAMBDA r : Ret(r.s, r.err))

op_CHECKSIGVERIFY(s) ==
    IF Size(s) < 2 THEN Ret(s, "OP_CHECKSIGVERIFY requires two values on the stack")
    ELSE Bind(checkSig(s), LAMBDA r :
         IF ~r.ok THEN Ret(r.s, "invalid signature")
         ELSE Ret(r.s, r.err))

op_CHECKMULTISIG(s) ==
    Bind(checkMultiSig(s), LAMBDA r :
    IF r.ok THEN Ret(Push(r.s, True), r.err)
    ELSE Ret(Push(r.s, False), r.err))

\* OP_CHECKMULTISIGVERIFY that fails only on the error of checkMultiSig.
op_CHECKMULTISIGVERIFY_errorOnly(s) ==
    Bind(checkMultiSig(s), LAMBDA r : Ret(r.s, r.err))

op_CHECKMULTISIGVERIFY(s) ==
    Bind(checkMultiSig(s), LAMBDA r :
    IF ~r.ok THEN Ret(r.s, "invalid signature")
    ELSE Ret(r.s, r.err))

\* The keys of ops.
OpNames ==
    {OP_TRUE, OP_FALSE, OP_VERIFY, OP_RETURN, OP_DUP, OP_DROP, OP_EQUAL,
     OP_EQUALVERIFY, OP_ADD, OP_NOT, OP_SUB, OP_BOOLAND, OP_BOOLOR,
     OP_RIPEMD160, OP_SHA1, OP_SHA256, OP_HASH160, OP_HASH256, OP_CHECKSIG,
     OP_CHECKSIGVERIFY, OP_CHECKMULTISIG, OP_CHECKMULTISIGVERIFY}

\* ops[val](s), for val a key of ops.
ops(val, s) ==
    CASE val = OP_TRUE -> op_TRUE(s)
      [] val = OP_FALSE -> op_FALSE(s)
      [] val = OP_VERIFY -> op_VERIFY(s)
      [] val = OP_RETURN -> op_RETURN(s)
      [] val = OP_DUP -> op_DUP(s)
      [] val = OP_DROP -> op_DROP(s)
      [] val = OP_EQUAL -> op_EQUAL(s)
      [] val = OP_EQUALVERIFY -> op_EQUALVERIFY(s)
      [] val = OP_ADD -> op_ADD(s)
      [] val = OP_NOT -> op_NOT(s)
      [] val = OP_SUB -> op_SUB(s)
      [] val = OP_BOOLAND -> op_BOOLAND(s)
      [] val = OP_BOOLOR -> op_BOOLOR(s)
      [] val = OP_RIPEMD160 -> op_RIPEMD160(s)
      [] val = OP_SHA1 -> op_SHA1(s)
      [] val = OP_SHA256 -> op_SHA256(s)
      [] val = OP_HASH160 -> op_HASH160(s)
      [] val = OP_HASH256 -> op_HASH256(s)
      [] val = OP_CHECKSIG -> op_CHECKSIG(s)
      [] val = OP_CHECKSIGVERIFY -> op_CHECKSIGVERIFY(s)
      [] val = OP_CHECKMULTISIG -> op_CHECKMULTISIG(s)
      [] val = OP_CHECKMULTISIGVERIFY -> op_CHECKMULTISIGVERIFY(s)

(***************************************************************************)
(* Stack.execute, Stack.Execute and Stack.ExecuteUnlock (stack.go).        *)
(***************************************************************************)
\* The iteration pushing every token that is no key of ops, opcode-shaped or
\* not.
executeToken_pushesUnknown(s, val) ==
    IF val \in OpNames THEN ops(val, s)
    ELSE Ret([s EXCEPT !.values = Append(s.values, val)], nil)

\* One iteration of the loop of execute, on the token val.  errors.Wrap keeps
\* the cause, which is what the model records as the error.
executeToken(s, val) ==
    IF isOpCode(val)
    THEN IF val \notin OpNames THEN Ret(s, "unsupported opcode")
         ELSE ops(val, s)
    ELSE Ret([s EXCEPT !.values = Append(s.values, val)], nil)

\* The loop of execute without the return on an error.
executeContinues_pastError(script, i, err) == i <= Len(script)

\* The loop of execute goes on: no error was returned and a token is left.
executeContinues(script, i, err) == err = nil /\ i <= Len(script)

\* Execute without the test of the falsy literal "0".
Execute_anyValue(s, err) ==
    IF err # nil THEN FALSE
    ELSE IF Len(s.values) # 1 THEN FALSE
    ELSE TRUE

\* The value Execute returns once execute has returned err.
Execute(s, err) ==
    IF err # nil THEN FALSE
    ELSE IF Len(s.values) # 1 THEN FALSE
    ELSE IF s.values[1] = False THEN FALSE
    ELSE TRUE

\* ExecuteUnlock with the final test of Execute: exactly one value, not "0".
ExecuteUnlock_asExecute(s, err) ==
    IF err # nil THEN FALSE
    ELSE IF Len(s.values) # 1 THEN FALSE
    ELSE IF s.values[1] = False THEN FALSE
    ELSE TRUE

\* The value ExecuteUnlock returns once execute has returned err.
ExecuteUnlock(s, err) ==
    IF err # nil THEN FALSE
    ELSE IF \E k \in 1..Len(s.values) : isOpCode(s.values[k]) THEN FALSE
    ELSE IF Len(s.values) = 0 THEN FALSE
    ELSE TRUE

(***************************************************************************)
(* TxInputInterpreter (interpreter.go).                                    *)
(***************************************************************************)
\* strings.Split(text, " "): the pieces between the spaces; one empty piece
\* for the empty text.
stringsSplit(text) ==
    LET spaces == {k \in 1..Len(text) : text[k] = " "}
        \* the position of the p-th space; 0 and Len(text) + 1 bracket the text
        cut(p) == IF p = 0 THEN 0
                  ELSE IF p > Cardinality(spaces) THEN Len(text) + 1
                  ELSE CHOOSE k \in spaces : Cardinality({x \in spaces : x < k}) = p - 1
    IN  [p \in 1..(Cardinality(spaces) + 1) |-> SubSeq(text, cut(p - 1) + 1, cut(p) - 1)]

WithLockScript(lockText) == stringsSplit(lockText)
WithUnlockScript(unlockText) == stringsSplit(unlockText)
WithSignedBytes(b) == [k \in 1..Len(b) |-> b[k]]

\* The text of a script: its tokens with one space between them.
RECURSIVE Join(_)
Join(tokens) ==
    IF Len(tokens) = 0 THEN <<>>
    ELSE IF Len(tokens) = 1 THEN tokens[1]
    ELSE tokens[1] \o <<" ">> \o Join(Tail(tokens))

(***************************************************************************)
(* The scripts the model runs.                                             *)
(***************************************************************************)
Num(n) == FormatInt(n)
suchValue == <<"s", "u", "c", "h", "V", "a", "l", "u", "e">>
\* Opcode-shaped, and no key of ops.
OP_NOP == OP_ \o <<"N", "O", "P">>

\* The private keys 1..NumKeys and one more that no lock script names.
NumKeys == 3
\* Most signatures of an unlock script of the multisignature scripts.
MaxSigs == 2

Tx42 == <<42>>
Tx24 == <<24>>
TxSet == {Tx42, Tx24}

\* OP_HASH160 of the public key of k, as the tests' createSig computes it.
PubKeyHashHex(k) == hexEncodeToString(ripemd160NewSum(sha256Sum256(<<2, k>>)))

Literals == {Num(0), Num(1), Num(2), Num(-1), suchValue, PubKeyHex(1)}
AllTokens == OpNames \cup {OP_NOP} \cup Literals
UnlockTokens == {Num(0), Num(1), Num(-1), suchValue, PubKeyHex(1), OP_DROP, OP_EQUAL}
TailTokens == {OP_TRUE, OP_DROP}

\* Free-form: any short unlock script, and a lock script of any token followed
\* by a short tail.
FreeFormUnlocks == BSeq(UnlockTokens, MaxUnlockLen)
FreeFormLocks ==
    {<<>>} \cup {<<tok>> \o tail :
                    tok \in AllTokens, tail \in BSeq(TailTokens, MaxLockLen - 1)}

\* Numeric: unlock "a b" against "OP_ADD c OP_EQUAL" and its verify form.
NumericLock(c) == <<OP_ADD, Num(c), OP_EQUAL>>
NumericLockVerify(c) == <<OP_ADD, Num(c), OP_EQUALVERIFY, OP_TRUE>>
NumericUnlocks ==
    {<<Num(a), Num(b)>> : a \in (0 - MaxInt)..MaxInt, b \in (0 - MaxInt)..MaxInt}
NumericLocks ==
    UNION {{NumericLock(c), NumericLockVerify(c)} :
              c \in (0 - 2 * MaxInt)..(2 * MaxInt)}

\* Pay-to-public-key-hash.
P2PKHLock(hash) == <<OP_DUP, OP_HASH160, hash, OP_EQUALVERIFY, OP_CHECKSIG>>
P2PKHUnlocks ==
    {<<SigHex(k, m), PubKeyHex(j)>> : k \in 1..NumKeys, m \in TxSet, j \in 1..NumKeys}
P2PKHLocks == {P2PKHLock(PubKeyHashHex(h)) : h \in 1..NumKeys}

\* Multisignature: "m pk1 .. pkj n OP_CHECKMULTISIG", the counts m and n free
\* (n is j, one off j, or negative), and the verify form followed by OP_TRUE,
\* against up to MaxSigs signatures: of the keys of the lock script, of the
\* key NumKeys + 1 that no lock script names, and of key 1 over other bytes.
PubKeyTokens(j) == [k \in 1..j |-> PubKeyHex(k)]
SigTokens == {SigHex(k, Tx42) : k \in 1..(NumKeys + 1)} \cup {SigHex(1, Tx24)}
MultiSigLock(m, j, n) == <<Num(m)>> \o PubKeyTokens(j) \o <<Num(n), OP_CHECKMULTISIG>>
MultiSigLockVerify(m, j, n) ==
    <<Num(m)>> \o PubKeyTokens(j) \o <<Num(n), OP_CHECKMULTISIGVERIFY, OP_TRUE>>
MultiSigUnlocks == BSeq(SigTokens, MaxSigs)
MultiSigLocks ==
    UNION {{MultiSigLock(m, j, n) : n \in {-1, j - 1, j, j + 1}}
              \cup {MultiSigLockVerify(m, j, j)} :
              m \in -1..MaxSigs, j \in 0..NumKeys}

\* The scripts the tests of Stack pass to Execute on a fresh stack.
TestScripts == BSeq(AllTokens, MaxLockLen)

\* Malformed keys and signatures: no hex text, and hex text of bytes that
\* btcec does not parse as a key (as a signature).
BadKeyTokens == {suchValue, SigHex(1, Tx42)}
BadSigTokens == {suchValue, PubKeyHex(1)}

\* Unlock "sig key" against a lock script that starts with OP_CHECKSIG or
\* OP_CHECKSIGVERIFY, each of the two well-formed or malformed.
CheckSigUnlocks ==
    {<<sg, k>> : sg \in {SigHex(1, Tx42), SigHex(2, Tx42)} \cup BadSigTokens,
                 k \in {PubKeyHex(1)} \cup BadKeyTokens}
CheckSigLocks ==
    {<<op>> \o tail : op \in {OP_CHECKSIG, OP_CHECKSIGVERIFY},
                      tail \in {<<>>, <<OP_TRUE>>}}

\* One-of-one multisignature scripts, the key and the signature well-formed or
\* malformed.
BadMultiSigUnlocks ==
    {<<sg>> : sg \in {SigHex(1, Tx42), SigHex(2, Tx42)} \cup BadSigTokens}
BadMultiSigLocks ==
    {<<Num(1), k, Num(1), op>> \o tail :
        k \in {PubKeyHex(1)} \cup BadKeyTokens,
        op \in {OP_CHECKMULTISIG, OP_CHECKMULTISIGVERIFY},
        tail \in {<<>>, <<OP_TRUE>>}}

\* Arithmetic on a fresh stack: "a b OP_ADD b OP_SUB" and "a b OP_SUB" for
\* small integers and the two ends of the range of int.
ArithInts ==
    ((0 - MaxInt)..MaxInt) \cup {Pow2(IntSize - 1) - 1, 0 - Pow2(IntSize - 1)}
AddSubScript(a, b) == <<Num(a), Num(b), OP_ADD, Num(b), OP_SUB>>
SubScript(a, b) == <<Num(a), Num(b), OP_SUB>>
ArithScripts ==
    {AddSubScript(a, b) : a \in ArithInts, b \in ArithInts}
        \cup {SubScript(a, b) : a \in ArithInts, b \in ArithInts}

\* Every operation on a fresh stack where two operands lie above one more
\* value.
OperandTokens == {Num(0), Num(1), <<"0", "0">>}
DeepScripts ==
    {<<suchValue, a, b, op>> :
        a \in OperandTokens, b \in OperandTokens, op \in OpNames \cup {OP_NOP}}

\* Texts that strconv.ParseInt(v, 0, 0) may take for a number, used as an
\* operand of OP_ADD and OP_SUB and as the counts of OP_CHECKMULTISIG.
NumberTexts ==
    {<<"7">>, <<"-", "7">>, <<"+", "1">>, <<"0", "1">>, <<"0", "x", "1">>,
     <<"0", "X", "a">>, <<"0", "b", "1">>, <<"0", "o", "1">>, <<"1", "_", "0">>,
     <<"-", "0">>, <<"0", "8">>, <<"1", "x">>, <<"0", "x">>, <<"-">>}
NumberTextScripts ==
    {<<v, Num(1), op>> : v \in NumberTexts, op \in {OP_ADD, OP_SUB}}
        \cup {<<Num(1), v, op>> : v \in NumberTexts, op \in {OP_ADD, OP_SUB}}
        \cup {<<v, w, OP_CHECKMULTISIG>> :
                 v \in {<<"0", "x", "0">>, <<"0", "0">>, <<"+", "0">>, <<"0">>},
                 w \in {<<"0", "x", "0">>, <<"0", "0">>, <<"+", "0">>, <<"0">>}}

(***************************************************************************)
(* State.                                                                  *)
(***************************************************************************)
VARIABLES
    entry,          \* "Evaluate": i.Evaluate() is called; "Execute": InitStack().Execute(script)
    signedBytes,    \* TxInputInterpreter.signedBytes
    lockScript,     \* TxInputInterpreter.lockScript
    unlockScript,   \* TxInputInterpreter.unlockScript
    stack,          \* the Stack of the call
    script,         \* the argument of the running call of execute
    i,              \* index in script of the next token of the loop of execute
    err,            \* the error execute returns
    pc,             \* "Start", "ExecuteUnlock", "Execute", "Done", "Panic"
    retUnlock,      \* what ExecuteUnlock returned: "none", "true", "false"
    retExecute,     \* what Execute returned
    verdict,        \* what Evaluate returned
    prevVerdict,    \* what the previous call of Evaluate on this interpreter returned
    printed         \* the slice a call of Print returned, as its holder reads it

vars == <<entry, signedBytes, lockScript, unlockScript, stack, script, i, err,
          pc, retUnlock, retExecute, verdict, prevVerdict, printed>>

Bool(b) == IF b THEN "true" ELSE "false"

\* Print was not called.
NoPrint == [taken |-> FALSE, v |-> <<>>, shares |-> FALSE]

\* A script field: nil when its With method was never called (no token).
LockField(tokens) == IF tokens = <<>> THEN <<>> ELSE WithLockScript(Join(tokens))
UnlockField(tokens) == IF tokens = <<>> THEN <<>> ELSE WithUnlockScript(Join(tokens))

\* The interpreter as NewTxInputInterpreter and the With methods leave it.
Built(u, l, tx) ==
    /\ entry = "Evaluate"
    /\ unlockScript = UnlockField(u)
    /\ lockScript = LockField(l)
    /\ signedBytes = WithSignedBytes(tx)
    /\ script = <<>>

Init ==
    /\ \/ \E u \in FreeFormUnlocks, l \in FreeFormLocks : Built(u, l, Tx42)
       \/ \E u \in NumericUnlocks, l \in NumericLocks : Built(u, l, Tx42)
       \/ \E u \in P2PKHUnlocks, l \in P2PKHLocks, tx \in TxSet : Built(u, l, tx)
       \/ \E u \in MultiSigUnlocks, l \in MultiSigLocks : Built(u, l, Tx42)
       \/ \E u \in CheckSigUnlocks, l \in CheckSigLocks : Built(u, l, Tx42)
       \/ \E u \in BadMultiSigUnlocks, l \in BadMultiSigLocks : Built(u, l, Tx42)
       \/ /\ entry = "Execute"
          /\ unlockScript = <<>>
          /\ lockScript = <<>>
          /\ signedBytes = <<>>
          /\ script \in TestScripts \cup ArithScripts \cup DeepScripts \cup NumberTextScripts
    /\ stack = InitStack
    /\ i = 1
    /\ err = nil
    /\ pc = "Start"
    /\ retUnlock = "none"
    /\ retExecute = "none"
    /\ verdict = "none"
    /\ prevVerdict = "none"
    /\ printed = NoPrint

\* Evaluate: a fresh stack with the signed bytes, and ExecuteUnlock is called.
Call_Evaluate ==
    /\ pc = "Start" /\ entry = "Evaluate"
    /\ stack' = WithTxBytes(InitStack, signedBytes)
    /\ script' = unlockScript
    /\ i' = 1
    /\ err' = nil
    /\ pc' = "ExecuteUnlock"
    /\ UNCHANGED <<entry, signedBytes, lockScript, unlockScript, retUnlock,
                   retExecute, verdict, prevVerdict, printed>>

\* The tests of Stack: Execute is called on InitStack().
Call_Execute ==
    /\ pc = "Start" /\ entry = "Execute"
    /\ stack' = InitStack
    /\ i' = 1
    /\ err' = nil
    /\ pc' = "Execute"
    /\ UNCHANGED <<entry, signedBytes, lockScript, unlockScript, script,
                   retUnlock, retExecute, verdict, prevVerdict, printed>>

\* One iteration of the loop of execute; a panic unwinds the call.
Step_execute ==
    /\ pc \in {"ExecuteUnlock", "Execute"}
    /\ executeContinues(script, i, err)
    /\ \E r \in {executeToken(stack, script[i])} :
          /\ stack' = r.s
          /\ err' = r.err
          /\ pc' = IF r.s.panicked THEN "Panic" ELSE pc
          /\ printed' = Reads(printed, r.s)
    /\ i' = i + 1
    /\ UNCHANGED <<entry, signedBytes, lockScript, unlockScript, script,
                   retUnlock, retExecute, verdict, prevVerdict>>

\* Evaluate running the lock script on a fresh stack.
Return_ExecuteUnlock_freshStack ==
    /\ pc = "ExecuteUnlock"
    /\ ~executeContinues(script, i, err)
    /\ retUnlock' = Bool(ExecuteUnlock(stack, err))
    /\ IF ExecuteUnlock(stack, err)
       THEN /\ script' = lockScript
            /\ i' = 1
            /\ err' = nil
            /\ pc' = "Execute"
            /\ verdict' = verdict
            /\ stack' = WithTxBytes(InitStack, signedBytes)
       ELSE /\ verdict' = "false"
            /\ pc' = "Done"
            /\ UNCHANGED <<script, i, err, stack>>
    /\ UNCHANGED <<entry, signedBytes, lockScript, unlockScript, retExecute,
                   prevVerdict, printed>>

\* execute has returned in ExecuteUnlock: Evaluate returns false, or calls
\* Execute with the lock script on the same stack.
Return_ExecuteUnlock ==
    /\ pc = "ExecuteUnlock"
    /\ ~executeContinues(script, i, err)
    /\ retUnlock' = Bool(ExecuteUnlock(stack, err))
    /\ IF ExecuteUnlock(stack, err)
       THEN /\ script' = lockScript
            /\ i' = 1
            /\ err' = nil
            /\ pc' = "Execute"
            /\ verdict' = verdict
       ELSE /\ verdict' = "false"
            /\ pc' = "Done"
            /\ UNCHANGED <<script, i, err>>
    /\ UNCHANGED <<entry, signedBytes, lockScript, unlockScript, stack, retExecute,
                   prevVerdict, printed>>

\* execute has returned in Execute: its result is the verdict of Evaluate.
Return_Execute ==
    /\ pc = "Execute"
    /\ ~executeContinues(script, i, err)
    /\ retExecute' = Bool(Execute(stack, err))
    /\ verdict' = IF entry = "Evaluate" THEN Bool(Execute(stack, err)) ELSE verdict
    /\ pc' = "Done"
    /\ UNCHANGED <<entry, signedBytes, lockScript, unlockScript, stack, script,
                   i, err, retUnlock, prevVerdict, printed>>

Next ==
    \/ Call_Evaluate
    \/ Call_Execute
    \/ Step_execute
    \/ Return_ExecuteUnlock
    \/ Return_Execute

Spec == Init /\ [][Next]_vars

\* Evaluate called once more on an interpreter whose call has returned, with
\* the stack of the call that returned.
Again_Evaluate_sameStack ==
    /\ pc = "Done" /\ entry = "Evaluate"
    /\ prevVerdict' = verdict
    /\ stack' = stack
    /\ script' = unlockScript
    /\ i' = 1
    /\ err' = nil
    /\ pc' = "ExecuteUnlock"
    /\ retUnlock' = "none"
    /\ retExecute' = "none"
    /\ verdict' = "none"
    /\ UNCHANGED <<entry, signedBytes, lockScript, unlockScript, printed>>

\* Evaluate called once more on an interpreter whose call has returned: as in
\* every call, the stack is InitStack().WithTxBytes(i.signedBytes).
Again_Evaluate ==
    /\ pc = "Done" /\ entry = "Evaluate"
    /\ prevVerdict' = verdict
    /\ stack' = WithTxBytes(InitStack, signedBytes)
    /\ script' = unlockScript
    /\ i' = 1
    /\ err' = nil
    /\ pc' = "ExecuteUnlock"
    /\ retUnlock' = "none"
    /\ retExecute' = "none"
    /\ verdict' = "none"
    /\ UNCHANGED <<entry, signedBytes, lockScript, unlockScript, printed>>

NextRepeat == Next \/ Again_Evaluate

\* Evaluate called any number of times on the same interpreter.
SpecRepeat == Init /\ [][NextRepeat]_vars

\* Print called on the stack of a running or finished Execute.
Call_Print ==
    /\ entry = "Execute" /\ pc \in {"Execute", "Done"}
    /\ ~printed.taken
    /\ \E r \in {Stack_Print(stack)} :
          printed' = [taken |-> TRUE, v |-> r.v, shares |-> r.shares]
    /\ UNCHANGED <<entry, signedBytes, lockScript, unlockScript, stack, script,
                   i, err, pc, retUnlock, retExecute, verdict, prevVerdict>>

\* The holder of the slice Print returned writes its first element; the write
\* reaches s.values when the two share an array.
Write_Printed ==
    /\ printed.taken
    /\ Len(printed.v) > 0
    /\ printed.v[1] # OP_NOP
    /\ printed' = [printed EXCEPT !.v[1] = OP_NOP]
    /\ stack' = IF printed.shares /\ Len(stack.values) > 0
                THEN [stack EXCEPT !.values[1] = OP_NOP]
                ELSE stack
    /\ UNCHANGED <<entry, signedBytes, lockScript, unlockScript, script,
                   i, err, pc, retUnlock, retExecute, verdict, prevVerdict>>

NextPrint == Next \/ Call_Print \/ Write_Printed

\* The tests of Stack, which read the stack with Print.
SpecPrint == Init /\ [][NextPrint]_vars

(***************************************************************************)
(* Properties.                                                             *)
(***************************************************************************)
\* A step of the loop of execute, and the token it applies.
IsStep == i' = i + 1
Token == script[i]
IsOpCodeShaped(val) == Len(val) > 3 /\ val[1] = "O" /\ val[2] = "P" /\ val[3] = "_"

\* C1: Evaluate never panics: every token sequence ends in a boolean verdict.
C1_EvaluateNeverPanics == entry = "Evaluate" => pc # "Panic"

\* C2: Execute returns true if and only if the script ran without error and
\* exactly one value remains, which is not "0".
C2_ExecuteResult ==
    retExecute # "none" =>
        (retExecute = "true" <=>
            (err = nil /\ Len(stack.values) = 1 /\ stack.values[1] # <<"0">>))

\* Execute has returned true on a single value that is not "1".
C2_Witness == retExecute = "true" /\ stack.values = <<Num(2)>>

\* C3: ExecuteUnlock returns false if the script errors, the stack is empty or
\* a value is opcode-shaped, and true in every other case.
C3_ExecuteUnlockResult ==
    [][(retUnlock = "none" /\ retUnlock' # "none") =>
          (retUnlock' = "true" <=>
              (/\ err = nil
               /\ Len(stack.values) > 0
               /\ \A k \in 1..Len(stack.values) : ~IsOpCodeShaped(stack.values[k])))]_vars

\* ExecuteUnlock has returned true with two values left, the top one "0".
C3_Witness ==
    /\ retUnlock = "true" /\ pc = "Execute" /\ i = 1
    /\ Len(stack.values) = 2 /\ stack.values[2] = <<"0">>

\* C4: in Evaluate the phases follow each other in order, the lock script
\* starts on the stack the unlock script left, and a rejected unlock phase gives
\* the verdict false without Execute being called.
C4_PhasesInOrder ==
    [][entry = "Evaluate" =>
          /\ pc = "Start" => pc' = "ExecuteUnlock" /\ stack'.values = <<>>
          /\ pc = "ExecuteUnlock" => pc' \in {"ExecuteUnlock", "Execute", "Done", "Panic"}
          /\ pc = "Execute" => pc' \in {"Execute", "Done", "Panic"}
          /\ pc \in {"Done", "Panic"} => pc' = pc
          /\ (pc = "ExecuteUnlock" /\ pc' = "Execute") =>
                /\ retUnlock' = "true"
                /\ stack' = stack
                /\ script' = lockScript /\ i' = 1
          /\ (pc = "ExecuteUnlock" /\ pc' = "Done") =>
                /\ retUnlock' = "false" /\ verdict' = "false"
                /\ retExecute' = "none"
                /\ stack' = stack]_vars

\* The lock script is about to start on the two values the unlock script left.
C4_Witness ==
    /\ entry = "Evaluate" /\ pc = "Execute" /\ i = 1 /\ script = lockScript
    /\ Len(lockScript) > 0 /\ stack.values = <<Num(1), Num(0)>>

\* C5: once a token has failed, no later token changes the stack, and the
\* script's outcome is false.
C5_StopsAtFirstFailure ==
    [][err # nil =>
          /\ stack' = stack
          /\ i' = i
          /\ pc' = "Done"
          /\ IF pc = "ExecuteUnlock" THEN retUnlock' = "false" ELSE retExecute' = "false"]_vars

\* OP_EQUALVERIFY has failed and the OP_TRUE after it was not applied.
C5_Witness ==
    /\ pc = "Done" /\ err = "evaluated to false" /\ retExecute = "false"
    /\ i <= Len(script) /\ script[i] = OP_TRUE /\ script[i - 1] = OP_EQUALVERIFY
    /\ stack.values = <<>>

\* C6: a token that fails for want of values on the stack, or because it is
\* no registered opcode, leaves the stack as it was.
TooFewValuesErrors ==
    {"OP_EQUALVERIFY requires a value on the stack",
     "OP_EQUAL requires two values on the stack",
     "OP_EQUALVERIFY requires two values on the stack",
     "OP_ADD requires two values on the stack",
     "OP_NOT requires a value on the stack",
     "OP_SUB requires two values on the stack",
     "OP_BOOLAND requires two values on the stack",
     "OP_BOOLOR requires two values on the stack",
     "OP_RIPEMD160 requires a value on the stack",
     "OP_SHA1 requires a value on the stack",
     "OP_SHA256 requires a value on the stack",
     "OP_HASH160 requires a value on the stack",
     "OP_HASH256 requires a value on the stack",
     "OP_CHECKSIG requires two values on the stack",
     "OP_CHECKSIGVERIFY requires two values on the stack",
     "OP_CHECKMULTISIG requires a value for N on the stack",
     "OP_CHECKMULTISIG needs n public keys",
     "OP_CHECKMULTISIG requires a value for M on the stack",
     "OP_CHECKMULTISIG needs m signatures"}
C6_FailedTokenLeavesStack ==
    [][(IsStep /\ err' \in TooFewValuesErrors \cup {"unsupported opcode"}) =>
          stack'.values = stack.values]_vars

\* C7: unlock "a b" against "OP_ADD c OP_EQUAL" is authorized exactly when
\* a + b = c, and "OP_ADD c OP_EQUALVERIFY OP_TRUE" gives the same verdict.
C7_NumericScripts ==
    (/\ pc = "Done" /\ entry = "Evaluate"
     /\ unlockScript \in NumericUnlocks /\ lockScript \in NumericLocks) =>
        \A a, b \in (0 - MaxInt)..MaxInt, c \in (0 - 2 * MaxInt)..(2 * MaxInt) :
            (/\ unlockScript = <<Num(a), Num(b)>>
             /\ lockScript \in {NumericLock(c), NumericLockVerify(c)}) =>
                (verdict = "true" <=> a + b = c)

\* Unlock "2 3" against "OP_ADD 5 OP_EQUAL" is authorized.
C7_Witness ==
    /\ pc = "Done" /\ verdict = "true"
    /\ unlockScript = <<<<"2">>, <<"3">>>>
    /\ lockScript = <<OP_ADD, <<"5">>, OP_EQUAL>>

\* C8: pay-to-public-key-hash is authorized if and only if the hash of the
\* lock script is what OP_HASH160 gives for the public key, and the signature
\* is the one of that key over the signed bytes of the run.
Hash160Result(pubKey) ==
    Last(op_HASH160([InitStack EXCEPT !.values = <<pubKey>>]).s.values)
C8_PayToPubKeyHash ==
    (/\ pc = "Done" /\ entry = "Evaluate"
     /\ unlockScript \in P2PKHUnlocks /\ Len(lockScript) = 5) =>
        \A k, j \in 1..NumKeys, m \in TxSet :
            (/\ unlockScript = <<SigHex(k, m), PubKeyHex(j)>>
             /\ lockScript = P2PKHLock(lockScript[3])) =>
                (verdict = "true" <=>
                    (/\ lockScript[3] = Hash160Result(PubKeyHex(j))
                     /\ k = j
                     /\ m = signedBytes))

\* A valid signature and the right hash, over other signed bytes: rejected.
C8_Witness ==
    /\ pc = "Done" /\ verdict = "false" /\ signedBytes = Tx24
    /\ unlockScript = <<SigHex(1, Tx42), PubKeyHex(1)>>
    /\ lockScript = P2PKHLock(PubKeyHashHex(1))

\* The stack before a multisignature opcode holds, from the top, n, n public
\* keys, m, and m signatures, all well-formed.
KeyHexes == {PubKeyHex(k) : k \in 1..(NumKeys + 1)}
SigHexes == {SigHex(k, tx) : k \in 1..(NumKeys + 1), tx \in TxSet}
MultiSigWellFormed(n, m) ==
    LET vs == stack.values
        L == Len(vs)
    IN  /\ L >= n + m + 2
        /\ vs[L] = Num(n)
        /\ \A y \in (L - n)..(L - 1) : vs[y] \in KeyHexes
        /\ vs[L - n - 1] = Num(m)
        /\ \A x \in (L - n - m - 1)..(L - n - 2) : vs[x] \in SigHexes
\* Every one of the m signatures is the signature of one of the n keys over
\* the signed bytes.
EachSigMatchesAKey(n, m) ==
    LET vs == stack.values
        L == Len(vs)
    IN  \A x \in (L - n - m - 1)..(L - n - 2) :
            \E y \in (L - n)..(L - 1) :
                \E k \in 1..(NumKeys + 1) :
                    vs[x] = SigHex(k, stack.tx) /\ vs[y] = PubKeyHex(k)

\* C9: with well-formed inputs the multisignature check is true exactly when
\* every popped signature verifies against at least one popped key.
C9_MultiSigResult ==
    [][(IsStep /\ Token \in {OP_CHECKMULTISIG, OP_CHECKMULTISIGVERIFY}) =>
          \A n \in 0..NumKeys, m \in 0..MaxSigs :
              MultiSigWellFormed(n, m) =>
                  IF Token = OP_CHECKMULTISIG
                  THEN /\ err' = nil
                       /\ Last(stack'.values) =
                              IF EachSigMatchesAKey(n, m) THEN <<"1">> ELSE <<"0">>
                  ELSE err' = nil <=> EachSigMatchesAKey(n, m)]_vars

\* The same valid signature supplied twice satisfies a two-of-three script.
C9_Witness ==
    /\ pc = "Done" /\ verdict = "true"
    /\ unlockScript = <<SigHex(1, Tx42), SigHex(1, Tx42)>>
    /\ lockScript = MultiSigLock(2, 3, 3)

\* C10: the multisignature opcodes pop n, n keys, m and m signatures, and
\* fail when fewer than n or fewer than m values remain; a two-of-three script
\* is authorized with two valid signatures and rejected with one.
C10_MultiSigPops ==
    [][/\ (IsStep /\ Token \in {OP_CHECKMULTISIG, OP_CHECKMULTISIGVERIFY}) =>
            LET vs == stack.values
                L == Len(vs)
            IN  \A n \in 0..(NumKeys + 1), m \in 0..(MaxSigs + 1) :
                    /\ (L >= 1 /\ vs[L] = Num(n) /\ L - 1 < n) => err' # nil
                    /\ (/\ L >= n + 2
                        /\ vs[L] = Num(n)
                        /\ \A y \in (L - n)..(L - 1) : vs[y] \in KeyHexes
                        /\ vs[L - n - 1] = Num(m)
                        /\ L - n - 2 < m) => err' # nil
                    /\ (MultiSigWellFormed(n, m) /\ err' = nil) =>
                          stack'.values =
                              SubSeq(vs, 1, L - n - m - 2) \o
                                  (IF Token = OP_CHECKMULTISIG
                                   THEN <<Last(stack'.values)>> ELSE <<>>)
       /\ (/\ pc' = "Done"
           /\ lockScript = MultiSigLock(2, 3, 3)
           /\ signedBytes = Tx42) =>
            /\ \A k1, k2 \in 1..3 :
                  unlockScript = <<SigHex(k1, Tx42), SigHex(k2, Tx42)>> =>
                      verdict' = "true"
            /\ Len(unlockScript) = 1 => verdict' = "false"]_vars

\* One signature against the two-of-three script: too few signatures.
C10_Witness ==
    /\ pc = "Done" /\ verdict = "false"
    /\ unlockScript = <<SigHex(1, Tx42)>>
    /\ lockScript = MultiSigLock(2, 3, 3)
    /\ err = "OP_CHECKMULTISIG needs m signatures"

\* The stack before a multisignature opcode holds, from the top, n, n values
\* for the keys, m, and m values for the signatures.
MultiSigShaped(n, m) ==
    LET vs == stack.values
        L == Len(vs)
    IN  /\ L >= n + m + 2
        /\ vs[L] = Num(n)
        /\ vs[L - n - 1] = Num(m)
\* One of those keys or signatures is malformed.
MultiSigMalformed(n, m) ==
    LET vs == stack.values
        L == Len(vs)
    IN  \/ \E y \in (L - n)..(L - 1) : vs[y] \notin KeyHexes
        \/ \E x \in (L - n - m - 1)..(L - n - 2) : vs[x] \notin SigHexes

\* C11: a malformed key or signature is an error for both multisignature
\* opcodes; well-formed signatures that do not all verify make OP_CHECKMULTISIG
\* push "0" and go on without error, and make OP_CHECKMULTISIGVERIFY fail.
C11_MultiSigMalformedOrInvalid ==
    [][(IsStep /\ Token \in {OP_CHECKMULTISIG, OP_CHECKMULTISIGVERIFY}) =>
          \A n \in 0..NumKeys, m \in 0..MaxSigs :
              MultiSigShaped(n, m) =>
                  /\ MultiSigMalformed(n, m) => err' # nil
                  /\ (MultiSigWellFormed(n, m) /\ ~EachSigMatchesAKey(n, m)) =>
                        IF Token = OP_CHECKMULTISIG
                        THEN /\ err' = nil
                             /\ Last(stack'.values) = <<"0">>
                             /\ pc' = pc
                        ELSE err' # nil]_vars

\* A signature that verifies under no key: OP_CHECKMULTISIG has pushed "0" and
\* the OP_TRUE after it was applied.
C11_Witness ==
    /\ pc = "Done" /\ err = nil
    /\ unlockScript = <<SigHex(2, Tx42)>>
    /\ lockScript = <<Num(1), PubKeyHex(1), Num(1), OP_CHECKMULTISIG, OP_TRUE>>
    /\ stack.values = <<<<"0">>, <<"1">>>>

\* The two values OP_CHECKSIG and OP_CHECKSIGVERIFY take are well-formed, and
\* the signature is the one of the key over the signed bytes.
CheckSigWellFormed ==
    /\ Last(stack.values) \in KeyHexes
    /\ stack.values[Len(stack.values) - 1] \in SigHexes
CheckSigVerifies ==
    \E k \in 1..(NumKeys + 1) :
        /\ Last(stack.values) = PubKeyHex(k)
        /\ stack.values[Len(stack.values) - 1] = SigHex(k, stack.tx)

\* C12: with well-formed inputs OP_CHECKSIG never fails, pops the key and the
\* signature and pushes "1" or "0"; OP_CHECKSIGVERIFY pops them, pushes
\* nothing, and succeeds exactly when the inputs are well-formed and the
\* signature verifies.
C12_CheckSigAndVerify ==
    [][(IsStep /\ Token \in {OP_CHECKSIG, OP_CHECKSIGVERIFY} /\ Len(stack.values) >= 2) =>
          LET vs == stack.values
              below == SubSeq(vs, 1, Len(vs) - 2)
          IN  IF Token = OP_CHECKSIG
              THEN CheckSigWellFormed =>
                      /\ err' = nil
                      /\ pc' = pc
                      /\ stack'.values =
                            below \o <<IF CheckSigVerifies THEN <<"1">> ELSE <<"0">>>>
              ELSE /\ err' = nil <=> (CheckSigWellFormed /\ CheckSigVerifies)
                   /\ CheckSigWellFormed => stack'.values = below
                   /\ stack'.values = SubSeq(vs, 1, Len(stack'.values))]_vars

\* OP_CHECKSIGVERIFY has failed on a well-formed signature of another key.
C12_Witness ==
    /\ pc = "Done" /\ err = "invalid signature"
    /\ unlockScript = <<SigHex(2, Tx42), PubKeyHex(1)>>
    /\ lockScript = <<OP_CHECKSIGVERIFY, OP_TRUE>>
    /\ stack.values = <<>>

\* C13: OP_CHECKSIG on a malformed key or signature returns an error and
\* pushes nothing: what is left is the lower part of the stack before it.
C13_CheckSigMalformedPushesNothing ==
    [][(/\ IsStep /\ Token = OP_CHECKSIG /\ Len(stack.values) >= 2
        /\ ~CheckSigWellFormed) =>
          /\ err' # nil
          /\ stack'.values = SubSeq(stack.values, 1, Len(stack'.values))]_vars

\* C14: OP_EQUAL and OP_EQUALVERIFY agree on every pair of top values, both
\* pop the two values, and OP_EQUALVERIFY pushes nothing.
C14_EqualConsistent ==
    [][(IsStep /\ Token \in {OP_EQUAL, OP_EQUALVERIFY} /\ Len(stack.values) >= 2) =>
          LET vs == stack.values
              below == SubSeq(vs, 1, Len(vs) - 2)
              same == vs[Len(vs)] = vs[Len(vs) - 1]
          IN  IF Token = OP_EQUAL
              THEN /\ err' = nil
                   /\ stack'.values = below \o <<IF same THEN <<"1">> ELSE <<"0">>>>
              ELSE /\ err' = nil <=> same
                   /\ stack'.values = below]_vars

\* OP_EQUALVERIFY has failed on two different values above a third one.
C14_Witness ==
    /\ pc = "Done" /\ err = "evaluated to false"
    /\ script = <<suchValue, <<"0">>, <<"1">>, OP_EQUALVERIFY>>
    /\ stack.values = <<suchValue>>

\* C15: "a b OP_ADD b OP_SUB" on an empty stack leaves the decimal text of a
\* when a + b does not overflow, and "a b OP_SUB" leaves a - b.
NoOverflow(n) == n >= 0 - Pow2(IntSize - 1) /\ n < Pow2(IntSize - 1)
C15_AddSubRoundTrip ==
    (pc = "Done" /\ entry = "Execute" /\ script \in ArithScripts) =>
        \A a \in ArithInts, b \in ArithInts :
            /\ (script = <<Num(a), Num(b), OP_ADD, Num(b), OP_SUB>> /\ NoOverflow(a + b)) =>
                  err = nil /\ stack.values = <<Num(a)>>
            /\ (script = <<Num(a), Num(b), OP_SUB>> /\ NoOverflow(a - b)) =>
                  err = nil /\ stack.values = <<Num(a - b)>>

\* "3 -2 OP_ADD -2 OP_SUB" has left "3".
C15_Witness ==
    /\ pc = "Done" /\ entry = "Execute"
    /\ script = <<<<"3">>, <<"-", "2">>, OP_ADD, <<"-", "2">>, OP_SUB>>
    /\ stack.values = <<<<"3">>>>

\* C16: Evaluate leaves the scripts and the signed bytes of the interpreter
\* unchanged, and every further call returns the verdict of the call before.
C16_EvaluateRepeatable ==
    [][/\ lockScript' = lockScript
       /\ unlockScript' = unlockScript
       /\ signedBytes' = signedBytes
       /\ (pc' = "ExecuteUnlock" /\ i' = 1 /\ pc # "ExecuteUnlock") =>
             stack'.values = <<>> /\ stack'.tx = signedBytes
       /\ (verdict' # "none" /\ prevVerdict' # "none") => verdict' = prevVerdict']_vars

\* A second call of Evaluate has authorized, as the first one did, a request
\* whose first run left several values on the stack of the unlock script.
C16_Witness ==
    /\ pc = "Done" /\ prevVerdict = "true" /\ verdict = "true"
    /\ Len(unlockScript) = 2

\* C17: Print returns the values bottom to top and leaves the stack unchanged,
\* returns the empty result exactly for the empty stack, and what it returned
\* is independent of the stack: a push or pop does not change the slice, and a
\* write to the slice does not change the stack.
C17_PrintIsACopy ==
    [][/\ (~printed.taken /\ printed'.taken) =>
             /\ printed'.v = stack.values
             /\ stack' = stack
             /\ Len(printed'.v) = 0 <=> Len(stack.values) = 0
       /\ (printed.taken /\ printed'.v # printed.v) => stack' = stack
       /\ (printed.taken /\ stack' # stack) => printed'.v = printed.v]_vars

\* Print was called before the last token: the slice it returned still holds
\* the values of that moment, and the stack has others.
C17_Witness ==
    /\ pc = "Done" /\ printed.taken
    /\ printed.v = <<<<"1">>>>
    /\ stack.values = <<<<"1">>, <<"1">>>>

\* The step pops `pop` values, pushes `push` values, and leaves the values
\* below the popped ones as they were.
Effect(pop, push) ==
    LET vs == stack.values
        L == Len(vs)
    IN  /\ Len(stack'.values) = L - pop + push
        /\ SubSeq(stack'.values, 1, L - pop) = SubSeq(vs, 1, L - pop)
PopsTwoPushesOne == {OP_EQUAL, OP_ADD, OP_SUB, OP_BOOLAND, OP_BOOLOR, OP_CHECKSIG}
PopsTwo == {OP_EQUALVERIFY, OP_CHECKSIGVERIFY}
PopsOnePushesOne == {OP_NOT, OP_RIPEMD160, OP_SHA1, OP_SHA256, OP_HASH160, OP_HASH256}
\* The pop/push count defined for the token of the step, given that the stack
\* holds the values it takes.
DefinedEffect ==
    LET L == Len(stack.values)
    IN  /\ ~IsOpCodeShaped(Token) => Effect(0, 1)
        /\ Token \in {OP_TRUE, OP_FALSE} => Effect(0, 1)
        /\ Token = OP_DUP => IF L > 0 THEN Effect(0, 1) ELSE Effect(0, 0) /\ err' = nil
        /\ Token = OP_DROP => IF L > 0 THEN Effect(1, 0) ELSE Effect(0, 0) /\ err' = nil
        /\ (Token = OP_VERIFY /\ L >= 1) => Effect(1, 0)
        /\ (Token \in PopsTwoPushesOne /\ L >= 2) => Effect(2, 1)
        /\ (Token \in PopsTwo /\ L >= 2) => Effect(2, 0)
        /\ (Token \in PopsOnePushesOne /\ L >= 1) => Effect(1, 1)
        /\ Token = OP_CHECKMULTISIG =>
              \A n \in 0..NumKeys, m \in 0..MaxSigs :
                  MultiSigShaped(n, m) => Effect(n + m + 2, 1)
        /\ Token = OP_RETURN => Effect(0, 0)

\* C18: every token changes the stack by its defined pop/push count only and
\* leaves the values below the consumed ones unchanged and in order.
C18_DefinedEffectOfEveryToken == [][IsStep => DefinedEffect]_vars

\* C18, for the tokens that do not fail: a token applied without error changes
\* the stack by its defined pop/push count only, and so do OP_RETURN, a failing
\* OP_VERIFY and a failing OP_EQUALVERIFY.
C18_DefinedEffectOfAppliedTokens ==
    [][(/\ IsStep
        /\ \/ err' = nil
           \/ Token \in {OP_RETURN, OP_VERIFY, OP_EQUALVERIFY}) => DefinedEffect]_vars

\* C19: Pop is never called on an empty stack.
C19_PopNeverOnEmptyStack == ~stack.popEmpty

\* OP_DROP and OP_DUP were applied to the empty stack without a call of Pop.
C19_Witness ==
    /\ pc = "Done" /\ entry = "Execute" /\ err = nil
    /\ script = <<OP_DROP, OP_DUP>>
    /\ stack.values = <<>>

\* The text is the base 10 format of the integer it parses to.
RoundTrips(v) == ParseInt(v).err = nil /\ FormatInt(ParseInt(v).v) = v

\* C20: a value that OP_ADD, OP_SUB or OP_CHECKMULTISIG accepts as an integer
\* is the decimal text of that integer; any other text is rejected.
C20_NumbersRoundTrip ==
    [][IsStep =>
          LET vs == stack.values
              L == Len(vs)
          IN  /\ (Token \in {OP_ADD, OP_SUB} /\ L >= 2 /\ err' = nil) =>
                    RoundTrips(vs[L]) /\ RoundTrips(vs[L - 1])
              /\ (/\ Token = OP_CHECKMULTISIG /\ L >= 1
                  /\ err' # "could not parse value of N") => RoundTrips(vs[L])]_vars

\* The hash opcodes whose digest has 20 bytes; the other two have 32.
TwentyByteHashes == {OP_RIPEMD160, OP_SHA1, OP_HASH160}
\* The bytes of a hex text occur as consecutive bytes in those of another.
ContainsBytes(whole, part) ==
    \E k \in 0..(Len(whole) - Len(part)) : SubSeq(whole, k + 1, k + Len(part)) = part

\* C21: a hash opcode applied to a hex value replaces it by the hex text of a
\* digest of fixed length, 20 bytes for OP_RIPEMD160, OP_SHA1 and OP_HASH160
\* and 32 bytes for OP_SHA256 and OP_HASH256, which does not contain the bytes
\* of the input.
C21_HashPushesDigestOnly ==
    [][(/\ IsStep /\ Token \in PopsOnePushesOne \ {OP_NOT}
        /\ Len(stack.values) >= 1 /\ err' = nil) =>
          /\ Effect(1, 1)
          /\ Len(Last(stack'.values)) =
                IF Token \in TwentyByteHashes THEN 2 * 20 ELSE 2 * 32
          /\ Token \in {OP_RIPEMD160, OP_HASH160} =>
                ~ContainsBytes(Last(stack'.values), Last(stack.values))]_vars

\* C22: the boolean opcodes compare texts exactly.  OP_VERIFY pops a value
\* and succeeds only if it is "1"; OP_BOOLAND and OP_BOOLOR replace two values
\* by "1" if both are (one is) "1" and by "0" otherwise; OP_NOT replaces a
\* value by "1" if it is "0" and by "0" otherwise.
C22_BooleanOpcodesExact ==
    [][IsStep =>
          LET vs == stack.values
              L == Len(vs)
              Result(pop, b) ==
                  /\ err' = nil
                  /\ stack'.values =
                        SubSeq(vs, 1, L - pop) \o <<IF b THEN <<"1">> ELSE <<"0">>>>
          IN  /\ (Token = OP_VERIFY /\ L >= 1) =>
                    /\ err' = nil <=> vs[L] = <<"1">>
                    /\ stack'.values = SubSeq(vs, 1, L - 1)
              /\ (Token = OP_BOOLAND /\ L >= 2) =>
                    Result(2, vs[L] = <<"1">> /\ vs[L - 1] = <<"1">>)
              /\ (Token = OP_BOOLOR /\ L >= 2) =>
                    Result(2, vs[L] = <<"1">> \/ vs[L - 1] = <<"1">>)
              /\ (Token = OP_NOT /\ L >= 1) => Result(1, vs[L] = <<"0">>)]_vars

\* OP_NOT has replaced "2", which is neither "0" nor "1", by "0".
C22_Witness ==
    /\ pc = "Done" /\ entry = "Execute" /\ err = nil
    /\ script = <<<<"2">>, OP_NOT>>
    /\ stack.values = <<<<"0">>>>

\* C23: no value on the stack is ever opcode-shaped, and so ExecuteUnlock
\* returns false only on an error or an empty stack.
C23_NoOpcodeShapedValue ==
    /\ \A k \in 1..Len(stack.values) : ~IsOpCodeShaped(stack.values[k])
    /\ (pc = "Done" /\ retUnlock = "false") => (err # nil \/ Len(stack.values) = 0)

\* The unlock script "1 OP_EQUAL": its opcode-shaped token was applied, not
\* pushed, and ExecuteUnlock has returned false on the error of the opcode.
C23_Witness ==
    /\ pc = "Done" /\ retUnlock = "false"
    /\ unlockScript = <<<<"1">>, OP_EQUAL>>
    /\ err = "OP_EQUAL requires two values on the stack"
    /\ stack.values = <<<<"1">>>>

====
